---- MODULE Spec2Model ----
(***************************************************************************)
(* PrintFlow front end: the customer upload page (UploadPage) and the      *)
(* shop owner's dashboard (ShopDashboard), modelled as two state machines  *)
(* over one set of variables.  A page load renders one of the two; the     *)
(* upload page runs under Spec, the dashboard under DashSpec, and AppSpec  *)
(* has both routes.  A step is one run of an event handler, an effect, a   *)
(* timer callback or the continuation of an awaited request, as React      *)
(* commits it: the state updates of the run and the effects whose          *)
(* dependencies they change happen in the same step.                       *)
(***************************************************************************)
EXTENDS Integers, Sequences, FiniteSets, TLC

\* ------------------------------------------------------------- bounds
\* Upload requests that may be awaiting their response at once.
MaxInflight == 2
\* Pending setTimeout(transitionOut, 300) callbacks.
MaxTimers == 1
\* Toggle requests of the dashboard awaiting their response, per sent value.
MaxToggles == 2
\* Mark-completed, delete and download requests awaiting their response.
MaxJobRequests == 1

\* ---------------------------------------------------------- constants
\* STATIC_VARIABLES.MIN_COPIES / MAX_COPIES of ../config.
MIN_COPIES == 1
MAX_COPIES == 2

\* A falsy string: null, undefined and "" all fail `x && ...` and `x || y`.
NoValue == ""

\* Tokens the server issues.
Tokens == {"T1", "T2"}
\* The token an earlier page load may have left in local storage.
StoredAtLoad == "T1"
\* STATIC_VARIABLES.STATUS_TYPES and 'deleted'.
Statuses == {"pending", "completed", "expired", "deleted"}
PrintTypes == {"bw", "color"}
PrintSides == {"single", "double"}
\* The shop_id query parameter: present, or absent.
ShopIds == {"s1", NoValue}

\* What the dropzone hands to onDrop: the accepted files (by name); none
\* when every dropped file was rejected.
DropChoices == {<< >>, <<"a">>}
\* job.fileName of a status response.
ServerFileName == "r"

\* What the user leaves in the copies number field: e.target.value, as
\* characters.  A number field reports "" for text that is no number.
TypedTexts ==
  { << >>, <<"0">>, <<"-", "1">>, <<"3">>, <<"2", ".", "5">> }

\* Status responses of GET {jobStatusBase}/{token}: a job of any status,
\* submitted with the default options or with the other ones.
StatusResponses ==
  { [status |-> st, print_type |-> o[1], print_side |-> o[2],
     copies |-> o[3]] :
      st \in Statuses,
      o \in { << "bw", "single", 1 >>, << "color", "double", 2 >> } }

VARIABLES
  \* --- upload page
  phase,            \* "init" before the component mounts, "mounted", then
                    \* "unmounted"; "absent" when the route is the dashboard
  shopId,           \* searchParams.get('shop_id')
  localStorage,     \* the value under uploadToken_{shopId}; NoValue: absent
  isShopClosed, files, printType, printSide, copies,
  isUploading, uploadComplete, token, jobStatus,
  shopFetch,        \* fetchShopDetails: "none" | "inflight" | "done"
  recovery,         \* checkPreviousUpload: "none" | "inflight" | "done"
  recoveryToken,    \* its storedToken, read at mount
  uploadsInFlight,  \* POSTs of handleSubmit awaiting their response
  timers,           \* pending transitionOut callbacks
  sockToken,        \* `token` as the socket handlers' closure holds it
  sockConnected,    \* the current socket is connected (and has joined)
  openSockets,      \* sockets made by io() that were not disconnect()ed
  socketRef,        \* socketRef.current: "null" | "socket"
  \* --- dashboard
  dashPhase,
  printJobs, isAcceptingUploads, isLoading,
  jobsFetch,        \* fetchJobs: "none" | "inflight" | "done"
  dashShopFetch,    \* the dashboard's fetchShopDetails
  togglesInFlight,  \* [sent value -> number of PUT toggle-uploads in flight]
  dashConnected,
  dashOpenSockets,  \* as openSockets
  dashSocketRef,    \* as socketRef
  jobRequests,      \* requests of the job buttons awaiting their response
  savedAs,          \* link.download of the link the last step clicked
  activeTab,        \* the tab of the job list
  searchQuery,      \* the text of the search field, as its characters
  \* --- the server
  serverStatus,     \* the status of the last status event the server sent
                    \* for the page's token; NoValue: none yet
  \* --- both
  toast,            \* the notification the last step raised, or "none"
  sockLog           \* the calls on the socket API the last step made

uploadVars ==
  << phase, shopId, localStorage, isShopClosed, files, printType, printSide,
     copies, isUploading, uploadComplete, token, jobStatus, shopFetch,
     recovery, recoveryToken, uploadsInFlight, timers, sockToken,
     sockConnected, openSockets, socketRef >>

dashVars ==
  << dashPhase, printJobs, isAcceptingUploads, isLoading, jobsFetch,
     dashShopFetch, togglesInFlight, dashConnected, dashOpenSockets,
     dashSocketRef, jobRequests, savedAs, activeTab, searchQuery >>

serverVars == << serverStatus >>

vars == << uploadVars, dashVars, serverVars, toast, sockLog >>

\* The notifications, by the call that raises them.  Each handler leaves
\* in `toast` the one it raised, "none" when it raised none.
ErrorToasts ==
  { "Failed to fetch shop details", "WebSocket connection error",
    "Job was declined/deleted", "All jobs were declined/deleted",
    "Please select at least one file to upload", "Upload failed",
    "Failed to fetch print jobs", "Failed to update shop status",
    "Failed to mark job as completed", "Failed to delete job",
    "Job not found", "Download failed" }
SuccessToasts ==
  { "Job is completed", "All jobs completed", "files uploaded successfully",
    "New print job received", "Job marked as completed",
    "Job deleted successfully", "Jobs marked as completed",
    "Jobs deleted successfully", "Upload form toggled",
    "Download complete" }
\* toast.info(...)
InfoToasts == { "job is still pending", "status updated" }
\* toast.loading(...)
LoadingToasts == { "Preparing download" }

\* ------------------------------------------------------- socket calls
\* One call on the socket API: io(), socket.disconnect(), and
\* socket.emit('joinShopRoom', id).
SocketCall(op, arg) == [op |-> op, arg |-> arg]
Io == SocketCall("io", NoValue)
Disconnect == SocketCall("disconnect", NoValue)
JoinShopRoom(id) == SocketCall("joinShopRoom", id)

\* ------------------------------------------------ copies number field
Digits == {"0", "1", "2", "3", "4", "5", "6", "7", "8", "9"}

DigitVal(c) ==
  CASE c = "0" -> 0 [] c = "1" -> 1 [] c = "2" -> 2 [] c = "3" -> 3
    [] c = "4" -> 4 [] c = "5" -> 5 [] c = "6" -> 6 [] c = "7" -> 7
    [] c = "8" -> 8 [] c = "9" -> 9

\* The value of the longest run of digits that starts s, and whether there
\* was one.
RECURSIVE LeadingDigits(_, _, _)
LeadingDigits(s, acc, seen) ==
  IF s = << >> \/ Head(s) \notin Digits
    THEN [nan |-> ~seen, val |-> acc]
    ELSE LeadingDigits(Tail(s), 10 * acc + DigitVal(Head(s)), TRUE)

\* parseInt: an optional sign, then digits up to the first other character;
\* NaN when no digit follows the sign.
ParseInt(s) ==
  IF s # << >> /\ Head(s) = "-"
    THEN LET r == LeadingDigits(Tail(s), 0, FALSE)
         IN  [nan |-> r.nan, val |-> 0 - r.val]
    ELSE LeadingDigits(s, 0, FALSE)

\* parseInt(e.target.value) || STATIC_VARIABLES.MIN_COPIES: NaN and 0 are
\* falsy.
CopiesFromField(s) ==
  LET r == ParseInt(s)
  IN  IF r.nan \/ r.val = 0 THEN MIN_COPIES ELSE r.val

\* --------------------------------------------------- upload page: views
\* The three returns of the component.
MainView == phase = "mounted" /\ shopId # NoValue /\ ~isShopClosed
\* A form that is rendered in the closed-shop view too.
FormShownWhenClosed ==
  phase = "mounted" /\ shopId # NoValue /\ ~uploadComplete

\* {!uploadComplete && <form ...>}
FormShown == MainView /\ ~uploadComplete
\* <CSSTransition in={uploadComplete && !isTransitioning}>
CardShown == MainView /\ uploadComplete
\* disabled={files.length === 0 || isUploading}
SubmitDisabled == Len(files) = 0 \/ isUploading

\* useEffect(..., [token, shopId]): a commit that changes token runs the
\* cleanup (socket.disconnect(), socketRef.current = null) and then the
\* effect again: io() opens a socket whose handlers close over the new
\* token.
SocketEffect(newToken) ==
  IF newToken # token
    THEN /\ sockToken' = newToken /\ sockConnected' = FALSE
         /\ openSockets' = (openSockets - 1) + 1
         /\ socketRef' = "socket"
         /\ sockLog' = << Disconnect, Io >>
    ELSE /\ UNCHANGED << sockToken, sockConnected, openSockets, socketRef >>
         /\ sockLog' = << >>

UploadInit ==
  /\ phase \in {"init", "absent"}
  /\ shopId \in ShopIds
  /\ localStorage \in {NoValue, StoredAtLoad}
  \* The dashboard's URL has no shop_id, and it reads no upload token.
  /\ phase = "absent" => (shopId = NoValue /\ localStorage = NoValue)
  /\ isShopClosed = TRUE
  /\ files = << >>
  /\ printType = "bw"
  /\ printSide = "single"
  /\ copies = MIN_COPIES
  /\ isUploading = FALSE
  /\ uploadComplete = FALSE
  /\ token = NoValue
  /\ jobStatus = "pending"
  /\ shopFetch = "none"
  /\ recovery = "none"
  /\ recoveryToken = NoValue
  /\ uploadsInFlight = 0
  /\ timers = 0
  /\ sockToken = NoValue
  /\ sockConnected = FALSE
  /\ openSockets = 0
  /\ socketRef = "null"

\* The three mount effects: fetchShopDetails(), checkPreviousUpload() up to
\* their first await, and the socket.
Mount ==
  /\ phase = "init"
  /\ phase' = "mounted"
  /\ shopFetch' = IF shopId # NoValue THEN "inflight" ELSE "none"
  /\ recovery' = IF localStorage # NoValue /\ shopId # NoValue
                   THEN "inflight" ELSE "none"
  /\ recoveryToken' = IF localStorage # NoValue /\ shopId # NoValue
                        THEN localStorage ELSE NoValue
  /\ sockToken' = token
  /\ sockConnected' = FALSE
  /\ openSockets' = openSockets + 1
  /\ socketRef' = "socket"
  /\ sockLog' = << Io >>
  /\ toast' = "none"
  /\ UNCHANGED << shopId, localStorage, isShopClosed, files, printType,
                  printSide, copies, isUploading, uploadComplete, token,
                  jobStatus, uploadsInFlight, timers, dashVars, serverVars >>

\* An unmount whose effect has no cleanup.
UnmountKeepsSocket ==
  /\ phase = "mounted"
  /\ phase' = "unmounted"
  /\ sockLog' = << >>
  /\ isShopClosed' = TRUE
  /\ files' = << >>
  /\ printType' = "bw"
  /\ printSide' = "single"
  /\ copies' = MIN_COPIES
  /\ isUploading' = FALSE
  /\ uploadComplete' = FALSE
  /\ token' = NoValue
  /\ jobStatus' = "pending"
  /\ toast' = "none"
  /\ UNCHANGED << shopId, localStorage, shopFetch, recovery, recoveryToken,
                  uploadsInFlight, timers, sockToken, sockConnected,
                  openSockets, socketRef, dashVars, serverVars >>

\* The component unmounts: the socket effect's cleanup runs, and React
\* discards the component's state (here: back to the useState values).
\* Requests and timers that are pending stay pending.
Unmount ==
  /\ phase = "mounted"
  /\ phase' = "unmounted"
  /\ sockConnected' = FALSE
  /\ sockToken' = NoValue
  /\ openSockets' = openSockets - 1
  /\ socketRef' = "null"
  /\ sockLog' = << Disconnect >>
  /\ isShopClosed' = TRUE
  /\ files' = << >>
  /\ printType' = "bw"
  /\ printSide' = "single"
  /\ copies' = MIN_COPIES
  /\ isUploading' = FALSE
  /\ uploadComplete' = FALSE
  /\ token' = NoValue
  /\ jobStatus' = "pending"
  /\ toast' = "none"
  /\ UNCHANGED << shopId, localStorage, shopFetch, recovery, recoveryToken,
                  uploadsInFlight, timers, dashVars, serverVars >>

\* ----------------------------------------- upload page: REST responses
\* fetchShopDetails after `await fetch`: response.ok.
FetchShopOk(acc) ==
  /\ phase = "mounted" /\ shopFetch = "inflight"
  /\ shopFetch' = "done"
  /\ isShopClosed' = ~acc
  /\ toast' = "none"
  /\ sockLog' = << >>
  /\ UNCHANGED << phase, shopId, localStorage, files, printType, printSide,
                  copies, isUploading, uploadComplete, token, jobStatus,
                  recovery, recoveryToken, uploadsInFlight, timers, sockToken,
                  sockConnected, openSockets, socketRef, dashVars, serverVars >>

\* fetchShopDetails: the fetch rejected or !response.ok.
FetchShopFail ==
  /\ phase = "mounted" /\ shopFetch = "inflight"
  /\ shopFetch' = "done"
  /\ toast' = "Failed to fetch shop details"
  /\ sockLog' = << >>
  /\ UNCHANGED << phase, shopId, localStorage, isShopClosed, files, printType,
                  printSide, copies, isUploading, uploadComplete, token,
                  jobStatus, recovery, recoveryToken, uploadsInFlight, timers,
                  sockToken, sockConnected, openSockets, socketRef,
                  dashVars, serverVars >>

\* checkPreviousUpload's success branch without setJobStatus(job.status)
\* and setCopies(job.copies).
RecoveryOkKeepsDefaults(job) ==
  /\ phase = "mounted" /\ recovery = "inflight"
  /\ recovery' = "done"
  /\ token' = recoveryToken
  /\ uploadComplete' = TRUE
  /\ files' = << ServerFileName >>
  /\ printType' = job.print_type
  /\ printSide' = job.print_side
  /\ SocketEffect(recoveryToken)
  /\ toast' = "none"
  /\ UNCHANGED << phase, shopId, localStorage, isShopClosed, isUploading,
                  jobStatus, copies, shopFetch, recoveryToken,
                  uploadsInFlight, timers, dashVars, serverVars >>

\* checkPreviousUpload after `await fetch`: response.ok, job its JSON.
RecoveryOk(job) ==
  /\ phase = "mounted" /\ recovery = "inflight"
  /\ recovery' = "done"
  /\ token' = recoveryToken
  /\ jobStatus' = job.status
  /\ uploadComplete' = TRUE
  /\ files' = << ServerFileName >>
  /\ printType' = job.print_type
  /\ printSide' = job.print_side
  /\ copies' = job.copies
  /\ SocketEffect(recoveryToken)
  /\ toast' = "none"
  /\ UNCHANGED << phase, shopId, localStorage, isShopClosed, isUploading,
                  shopFetch, recoveryToken, uploadsInFlight, timers,
                  dashVars, serverVars >>

\* A catch block that reports the failure the way fetchShopDetails does.
RecoveryFailReported ==
  /\ phase = "mounted" /\ recovery = "inflight"
  /\ recovery' = "done"
  /\ localStorage' = NoValue
  /\ toast' = "Failed to fetch shop details"
  /\ sockLog' = << >>
  /\ UNCHANGED << phase, shopId, isShopClosed, files, printType, printSide,
                  copies, isUploading, uploadComplete, token, jobStatus,
                  shopFetch, recoveryToken, uploadsInFlight, timers,
                  sockToken, sockConnected, openSockets, socketRef,
                  dashVars, serverVars >>

\* checkPreviousUpload: the catch block.
RecoveryFail ==
  /\ phase = "mounted" /\ recovery = "inflight"
  /\ recovery' = "done"
  /\ localStorage' = NoValue
  /\ toast' = "none"
  /\ sockLog' = << >>
  /\ UNCHANGED << phase, shopId, isShopClosed, files, printType, printSide,
                  copies, isUploading, uploadComplete, token, jobStatus,
                  shopFetch, recoveryToken, uploadsInFlight, timers,
                  sockToken, sockConnected, openSockets, socketRef,
                  dashVars, serverVars >>

\* ------------------------------------------ upload page: push channel
\* A 'connect' handler that joins no room.
SocketConnectNoJoin ==
  /\ openSockets > 0 /\ ~sockConnected
  /\ sockConnected' = TRUE
  /\ sockLog' = << >>
  /\ toast' = "none"
  /\ UNCHANGED << phase, shopId, localStorage, isShopClosed, files,
                  printType, printSide, copies, isUploading, uploadComplete,
                  token, jobStatus, shopFetch, recovery, recoveryToken,
                  uploadsInFlight, timers, sockToken, openSockets,
                  socketRef, dashVars, serverVars >>

\* The transport connected (or reconnected): the 'connect' handler joins
\* the shop's room when shopId is present.
SocketConnect ==
  /\ openSockets > 0 /\ ~sockConnected
  /\ sockConnected' = TRUE
  /\ sockLog' = IF shopId # NoValue THEN << JoinShopRoom(shopId) >> ELSE << >>
  /\ toast' = "none"
  /\ UNCHANGED << phase, shopId, localStorage, isShopClosed, files,
                  printType, printSide, copies, isUploading, uploadComplete,
                  token, jobStatus, shopFetch, recovery, recoveryToken,
                  uploadsInFlight, timers, sockToken, openSockets,
                  socketRef, dashVars, serverVars >>

\* The transport lost its connection; it reconnects by itself.
SocketDrop ==
  /\ openSockets > 0 /\ sockConnected
  /\ sockConnected' = FALSE
  /\ toast' = "none"
  /\ sockLog' = << >>
  /\ UNCHANGED << phase, shopId, localStorage, isShopClosed, files, printType,
                  printSide, copies, isUploading, uploadComplete, token,
                  jobStatus, shopFetch, recovery, recoveryToken,
                  uploadsInFlight, timers, sockToken, openSockets, socketRef,
                  dashVars, serverVars >>

\* socket.on('connect_error')
SocketConnectError ==
  /\ openSockets > 0 /\ ~sockConnected
  /\ toast' = "WebSocket connection error"
  /\ sockLog' = << >>
  /\ UNCHANGED << dashVars, uploadVars, serverVars >>

\* Room events reach a socket that is connected and has joined the room.
InRoom == sockConnected /\ shopId # NoValue

\* socket.on('shopStatusUpdate')
ShopStatusUpdate(acc) ==
  /\ InRoom
  /\ isShopClosed' = ~acc
  /\ toast' = "none"
  /\ sockLog' = << >>
  /\ UNCHANGED << phase, shopId, localStorage, files, printType, printSide,
                  copies, isUploading, uploadComplete, token, jobStatus,
                  shopFetch, recovery, recoveryToken, uploadsInFlight, timers,
                  sockToken, sockConnected, openSockets, socketRef,
                  dashVars, serverVars >>

\* The toast of a status handler of the upload page: `single` for
\* jobStatusUpdate, otherwise batchStatusUpdate.
StatusToast(single, st) ==
  IF st = "completed"
    THEN IF single THEN "Job is completed" ELSE "All jobs completed"
  ELSE IF st = "deleted"
    THEN IF single THEN "Job was declined/deleted"
                   ELSE "All jobs were declined/deleted"
  ELSE "none"

\* The status handlers without their comparison with `token`.
ApplyAnyTokenStatus(single, tok, st) ==
  /\ InRoom
  /\ jobStatus' = st /\ toast' = StatusToast(single, st)
  /\ sockLog' = << >>
  /\ UNCHANGED << phase, shopId, localStorage, isShopClosed, files, printType,
                  printSide, copies, isUploading, uploadComplete, token,
                  shopFetch, recovery, recoveryToken, uploadsInFlight, timers,
                  sockToken, sockConnected, openSockets, socketRef,
                  dashVars, serverVars >>

\* Status handlers that accept an event only for a job that is pending.
ApplyForwardStatus(single, tok, st) ==
  /\ InRoom
  /\ IF tok = sockToken /\ jobStatus = "pending"
       THEN jobStatus' = st /\ toast' = StatusToast(single, st)
       ELSE UNCHANGED jobStatus /\ toast' = "none"
  /\ sockLog' = << >>
  /\ UNCHANGED << phase, shopId, localStorage, isShopClosed, files, printType,
                  printSide, copies, isUploading, uploadComplete, token,
                  shopFetch, recovery, recoveryToken, uploadsInFlight, timers,
                  sockToken, sockConnected, openSockets, socketRef,
                  dashVars, serverVars >>

\* The body shared by socket.on('jobStatusUpdate') and
\* socket.on('batchStatusUpdate'): `token` is the one the handler closed
\* over.
ApplyTokenStatus(single, tok, st) ==
  /\ InRoom
  /\ IF tok = sockToken
       THEN jobStatus' = st /\ toast' = StatusToast(single, st)
       ELSE UNCHANGED jobStatus /\ toast' = "none"
  /\ sockLog' = << >>
  /\ UNCHANGED << phase, shopId, localStorage, isShopClosed, files, printType,
                  printSide, copies, isUploading, uploadComplete, token,
                  shopFetch, recovery, recoveryToken, uploadsInFlight, timers,
                  sockToken, sockConnected, openSockets, socketRef,
                  dashVars, serverVars >>

JobStatusUpdate(tok, st) == ApplyTokenStatus(TRUE, tok, st)

BatchStatusUpdate(tok, st) == ApplyTokenStatus(FALSE, tok, st)

\* The server emits jobStatusUpdate (`single`) or batchStatusUpdate with
\* status st for the page's token to the shop's room.  A socket that is
\* connected and has joined receives it and its handler runs; the transport
\* keeps no event for a socket that joins later.
ServerPush(single, st) ==
  /\ phase = "mounted" /\ token # NoValue
  /\ serverStatus' = st
  /\ IF InRoom /\ token = sockToken
       THEN jobStatus' = st /\ toast' = StatusToast(single, st)
       ELSE UNCHANGED jobStatus /\ toast' = "none"
  /\ sockLog' = << >>
  /\ UNCHANGED << phase, shopId, localStorage, isShopClosed, files, printType,
                  printSide, copies, isUploading, uploadComplete, token,
                  shopFetch, recovery, recoveryToken, uploadsInFlight, timers,
                  sockToken, sockConnected, openSockets, socketRef,
                  dashVars >>

\* --------------------------------------------- upload page: the form
\* onDrop
OnDrop(acceptedFiles) ==
  /\ FormShown
  /\ files' = IF Len(acceptedFiles) > 0 THEN acceptedFiles ELSE files
  /\ toast' = "none"
  /\ sockLog' = << >>
  /\ UNCHANGED << phase, shopId, localStorage, isShopClosed, printType,
                  printSide, copies, isUploading, uploadComplete, token,
                  jobStatus, shopFetch, recovery, recoveryToken,
                  uploadsInFlight, timers, sockToken, sockConnected,
                  openSockets, socketRef, dashVars, serverVars >>

\* files.filter((_, i) => i !== index), indices from 1 here.
FilterOut(fs, index) ==
  [k \in 1 .. (Len(fs) - 1) |-> IF k < index THEN fs[k] ELSE fs[k + 1]]

\* removeFile(index), and "Remove All" for index 0.
RemoveFile(index) ==
  /\ FormShown /\ Len(files) > 0
  /\ files' = IF index = 0 THEN << >> ELSE FilterOut(files, index)
  /\ toast' = "none"
  /\ sockLog' = << >>
  /\ UNCHANGED << phase, shopId, localStorage, isShopClosed, printType,
                  printSide, copies, isUploading, uploadComplete, token,
                  jobStatus, shopFetch, recovery, recoveryToken,
                  uploadsInFlight, timers, sockToken, sockConnected,
                  openSockets, socketRef, dashVars, serverVars >>

\* The print type and print side buttons.
SetPrintOptions(pt, ps) ==
  /\ FormShown
  /\ printType' = pt /\ printSide' = ps
  /\ (pt = printType \/ ps = printSide)
  /\ toast' = "none"
  /\ sockLog' = << >>
  /\ UNCHANGED << phase, shopId, localStorage, isShopClosed, files, copies,
                  isUploading, uploadComplete, token, jobStatus, shopFetch,
                  recovery, recoveryToken, uploadsInFlight, timers, sockToken,
                  sockConnected, openSockets, socketRef, dashVars, serverVars >>

\* The value the three copies controls leave in `copies`: "-", "+", and an
\* edit of the number field that leaves text s in it.
CopiesAfter(control, s) ==
  CASE control = "-" -> IF copies > MIN_COPIES THEN copies - 1 ELSE copies
    [] control = "+" -> IF copies < MAX_COPIES THEN copies + 1 ELSE copies
    [] control = "field" -> CopiesFromField(s)

SetCopies(control, s) ==
  /\ FormShown
  /\ copies' = CopiesAfter(control, s)
  /\ toast' = "none"
  /\ sockLog' = << >>
  /\ UNCHANGED << phase, shopId, localStorage, isShopClosed, files, printType,
                  printSide, isUploading, uploadComplete, token, jobStatus,
                  shopFetch, recovery, recoveryToken, uploadsInFlight, timers,
                  sockToken, sockConnected, openSockets, socketRef,
                  dashVars, serverVars >>

\* The multipart body handleSubmit builds from the state it closed over.
FormData ==
  [files |-> files, print_type |-> printType, print_side |-> printSide,
   copies |-> copies]

\* A handleSubmit without the files.length check.
HandleSubmitAnySelection ==
  /\ FormShown
  /\ Len(files) = 0 \/ ~SubmitDisabled
  /\ uploadsInFlight < MaxInflight
  /\ isUploading' = TRUE
  /\ uploadsInFlight' = uploadsInFlight + 1
  /\ toast' = "none"
  /\ sockLog' = << >>
  /\ UNCHANGED << phase, shopId, localStorage, isShopClosed, files, printType,
                  printSide, copies, uploadComplete, token, jobStatus,
                  shopFetch, recovery, recoveryToken, timers, sockToken,
                  sockConnected, openSockets, socketRef, dashVars, serverVars >>

\* handleSubmit up to `await fetch`.  The submit button delivers the event
\* only while it is enabled; the empty-selection branch is the handler's
\* own check.
HandleSubmit ==
  /\ FormShown
  /\ Len(files) = 0 \/ ~SubmitDisabled
  /\ IF Len(files) = 0
       THEN /\ toast' = "Please select at least one file to upload"
            /\ UNCHANGED << isUploading, uploadsInFlight >>
       ELSE /\ uploadsInFlight < MaxInflight
            /\ isUploading' = TRUE
            /\ uploadsInFlight' = uploadsInFlight + 1
            /\ toast' = "none"
  /\ sockLog' = << >>
  /\ UNCHANGED << phase, shopId, localStorage, isShopClosed, files, printType,
                  printSide, copies, uploadComplete, token, jobStatus,
                  shopFetch, recovery, recoveryToken, timers, sockToken,
                  sockConnected, openSockets, socketRef, dashVars, serverVars >>

\* handleSubmit's success branch without localStorage.setItem.
UploadOkNoStore(T) ==
  /\ phase = "mounted" /\ uploadsInFlight > 0
  /\ uploadsInFlight' = uploadsInFlight - 1
  /\ token' = T
  /\ uploadComplete' = TRUE
  /\ jobStatus' = "pending"
  /\ isUploading' = FALSE
  /\ SocketEffect(T)
  /\ toast' = "files uploaded successfully"
  /\ UNCHANGED << phase, shopId, localStorage, isShopClosed, files,
                  printType, printSide, copies, shopFetch, recovery,
                  recoveryToken, timers, dashVars, serverVars >>

\* handleSubmit after `await fetch`: response.ok, data.token_number = T.
UploadOk(T) ==
  /\ phase = "mounted" /\ uploadsInFlight > 0
  /\ uploadsInFlight' = uploadsInFlight - 1
  /\ token' = T
  /\ localStorage' = T
  /\ uploadComplete' = TRUE
  /\ jobStatus' = "pending"
  /\ isUploading' = FALSE
  /\ SocketEffect(T)
  /\ toast' = "files uploaded successfully"
  /\ UNCHANGED << phase, shopId, isShopClosed, files, printType, printSide,
                  copies, shopFetch, recovery, recoveryToken, timers,
                  dashVars, serverVars >>

\* A failure branch that drops the selection, as the reset does.
UploadFailClearsFiles ==
  /\ phase = "mounted" /\ uploadsInFlight > 0
  /\ uploadsInFlight' = uploadsInFlight - 1
  /\ isUploading' = FALSE
  /\ files' = << >>
  /\ toast' = "Upload failed"
  /\ sockLog' = << >>
  /\ UNCHANGED << phase, shopId, localStorage, isShopClosed, printType,
                  printSide, copies, uploadComplete, token, jobStatus,
                  shopFetch, recovery, recoveryToken, timers, sockToken,
                  sockConnected, openSockets, socketRef, dashVars, serverVars >>

\* handleSubmit: the fetch rejected or !response.ok; catch, then finally.
UploadFail ==
  /\ phase = "mounted" /\ uploadsInFlight > 0
  /\ uploadsInFlight' = uploadsInFlight - 1
  /\ isUploading' = FALSE
  /\ toast' = "Upload failed"
  /\ sockLog' = << >>
  /\ UNCHANGED << phase, shopId, localStorage, isShopClosed, files, printType,
                  printSide, copies, uploadComplete, token, jobStatus,
                  shopFetch, recovery, recoveryToken, timers, sockToken,
                  sockConnected, openSockets, socketRef, dashVars, serverVars >>

\* ------------------------------------- upload page: the success card
\* An onClick without the test of jobStatus.
ResetClickAnyStatus ==
  /\ CardShown
  /\ timers < MaxTimers
  /\ uploadComplete' = FALSE
  /\ timers' = timers + 1
  /\ toast' = "none"
  /\ sockLog' = << >>
  /\ UNCHANGED << phase, shopId, localStorage, isShopClosed, files, printType,
                  printSide, copies, isUploading, token, jobStatus, shopFetch,
                  recovery, recoveryToken, uploadsInFlight, sockToken,
                  sockConnected, openSockets, socketRef, dashVars,
                  serverVars >>

\* "Upload Another File" onClick.
ResetClick ==
  /\ CardShown
  /\ IF jobStatus = "completed" \/ jobStatus = "deleted"
       THEN /\ timers < MaxTimers
            /\ uploadComplete' = FALSE
            /\ timers' = timers + 1
            /\ toast' = "none"
       ELSE /\ UNCHANGED << uploadComplete, timers >>
            /\ toast' = "job is still pending"
  /\ sockLog' = << >>
  /\ UNCHANGED << phase, shopId, localStorage, isShopClosed, files, printType,
                  printSide, copies, isUploading, token, jobStatus, shopFetch,
                  recovery, recoveryToken, uploadsInFlight, sockToken,
                  sockConnected, openSockets, socketRef, dashVars, serverVars >>

\* transitionOut, run by setTimeout 300 ms after the click.
TransitionOut ==
  /\ phase = "mounted" /\ timers > 0
  /\ timers' = timers - 1
  /\ files' = << >>
  /\ printType' = "bw"
  /\ printSide' = "single"
  /\ copies' = MIN_COPIES
  /\ isUploading' = FALSE
  /\ uploadComplete' = FALSE
  /\ token' = NoValue
  /\ localStorage' = NoValue
  /\ SocketEffect(NoValue)
  /\ toast' = "none"
  /\ UNCHANGED << phase, shopId, isShopClosed, jobStatus, shopFetch,
                  recovery, recoveryToken, uploadsInFlight, dashVars, serverVars >>

\* ---------------------------- upload page: continuations after unmount
\* React ignores the state setters of an unmounted component; what a
\* continuation does besides setting state still happens.

\* fetchShopDetails: the catch block's toast.
LateFetchShop(ok) ==
  /\ phase = "unmounted" /\ shopFetch = "inflight"
  /\ shopFetch' = "done"
  /\ toast' = IF ok THEN "none" ELSE "Failed to fetch shop details"
  /\ sockLog' = << >>
  /\ UNCHANGED << phase, shopId, localStorage, isShopClosed, files, printType,
                  printSide, copies, isUploading, uploadComplete, token,
                  jobStatus, recovery, recoveryToken, uploadsInFlight, timers,
                  sockToken, sockConnected, openSockets, socketRef,
                  dashVars, serverVars >>

\* checkPreviousUpload: the catch block's localStorage.removeItem.
LateRecovery(ok) ==
  /\ phase = "unmounted" /\ recovery = "inflight"
  /\ recovery' = "done"
  /\ localStorage' = IF ok THEN localStorage ELSE NoValue
  /\ toast' = "none"
  /\ sockLog' = << >>
  /\ UNCHANGED << phase, shopId, isShopClosed, files, printType, printSide,
                  copies, isUploading, uploadComplete, token, jobStatus,
                  shopFetch, recoveryToken, uploadsInFlight, timers,
                  sockToken, sockConnected, openSockets, socketRef,
                  dashVars, serverVars >>

\* handleSubmit: localStorage.setItem and the toasts.
LateUpload(ok, T) ==
  /\ phase = "unmounted" /\ uploadsInFlight > 0
  /\ uploadsInFlight' = uploadsInFlight - 1
  /\ localStorage' = IF ok THEN T ELSE localStorage
  /\ toast' = IF ok THEN "files uploaded successfully" ELSE "Upload failed"
  /\ sockLog' = << >>
  /\ UNCHANGED << phase, shopId, isShopClosed, files, printType, printSide,
                  copies, isUploading, uploadComplete, token, jobStatus,
                  shopFetch, recovery, recoveryToken, timers, sockToken,
                  sockConnected, openSockets, socketRef, dashVars, serverVars >>

\* transitionOut: localStorage.removeItem.
LateTransitionOut ==
  /\ phase = "unmounted" /\ timers > 0
  /\ timers' = timers - 1
  /\ localStorage' = NoValue
  /\ toast' = "none"
  /\ sockLog' = << >>
  /\ UNCHANGED << phase, shopId, isShopClosed, files, printType, printSide,
                  copies, isUploading, uploadComplete, token, jobStatus,
                  shopFetch, recovery, recoveryToken, uploadsInFlight,
                  sockToken, sockConnected, openSockets, socketRef,
                  dashVars, serverVars >>

UploadNext ==
  \/ Mount
  \/ Unmount
  \/ \E acc \in BOOLEAN : FetchShopOk(acc)
  \/ FetchShopFail
  \/ \E job \in StatusResponses : RecoveryOk(job)
  \/ RecoveryFail
  \/ SocketConnect
  \/ SocketDrop
  \/ SocketConnectError
  \/ \E acc \in BOOLEAN : ShopStatusUpdate(acc)
  \/ \E tok \in Tokens, st \in Statuses : JobStatusUpdate(tok, st)
  \/ \E tok \in Tokens, st \in Statuses : BatchStatusUpdate(tok, st)
  \/ \E fs \in DropChoices : OnDrop(fs)
  \/ \E i \in 0 .. Len(files) : RemoveFile(i)
  \/ \E pt \in PrintTypes, ps \in PrintSides : SetPrintOptions(pt, ps)
  \/ \E c \in {"-", "+"} : SetCopies(c, << >>)
  \/ \E s \in TypedTexts : SetCopies("field", s)
  \/ HandleSubmit
  \/ \E T \in Tokens : UploadOk(T)
  \/ UploadFail
  \/ ResetClick
  \/ TransitionOut
  \/ \E ok \in BOOLEAN : LateFetchShop(ok)
  \/ \E ok \in BOOLEAN : LateRecovery(ok)
  \/ \E ok \in BOOLEAN, T \in Tokens : LateUpload(ok, T)
  \/ LateTransitionOut

\* A first submission and the status events the server sends for it.
LiveNext ==
  \/ Mount
  \/ \E acc \in BOOLEAN : FetchShopOk(acc)
  \/ FetchShopFail
  \/ SocketConnect
  \/ \E fs \in DropChoices : OnDrop(fs)
  \/ \E i \in 0 .. Len(files) : RemoveFile(i)
  \/ \E pt \in PrintTypes, ps \in PrintSides : SetPrintOptions(pt, ps)
  \/ \E c \in {"-", "+"} : SetCopies(c, << >>)
  \/ HandleSubmit
  \/ \E T \in Tokens : UploadOk(T)
  \/ UploadFail
  \/ \E single \in BOOLEAN, st \in Statuses : ServerPush(single, st)

\* ------------------------------------------------ dashboard: the jobs
\* getShopId() of ../utils/auth.
DashShopId == "s1"

JobIds == {"j1", "j2", "j3"}

\* Jobs as GET {jobsBase}/prints/{shopId} returns them.  j1 and j2 are two
\* jobs of one batch: they share a token.
ServerJob1 ==
  [_id |-> "j1", token_number |-> "T1", print_type |-> "bw", copies |-> 2,
   status |-> "pending"]
ServerJob2 ==
  [_id |-> "j2", token_number |-> "T1", print_type |-> "color",
   copies |-> 1, status |-> "pending"]
ServerJob3 ==
  [_id |-> "j3", token_number |-> "T2", print_type |-> "bw", copies |-> 1,
   status |-> "completed"]
\* The responses of the jobs request: the day's list at the moment the
\* server answered.
JobLists ==
  { << >>, << ServerJob2, ServerJob1 >>,
    << ServerJob3, ServerJob2, ServerJob1 >> }

\* Payloads of newBatchPrintJob, in the current and in the legacy field
\* names; a field that is absent is NoValue (0 for copies).
PushedJob3 ==
  [id |-> "j3", _id |-> NoValue, token |-> "T2", token_number |-> NoValue,
   printType |-> "bw", print_type |-> NoValue, copies |-> 0,
   status |-> NoValue]
PushedJob1 ==
  [id |-> NoValue, _id |-> "j1", token |-> NoValue, token_number |-> "T1",
   printType |-> NoValue, print_type |-> "bw", copies |-> 2,
   status |-> "pending"]
PushedJobs == { PushedJob1, PushedJob3 }

\* a || b on strings.
Or(a, b) == IF a # NoValue THEN a ELSE b

\* formattedJob of the newBatchPrintJob handler.
FormatPushed(newJob) ==
  [id |-> Or(newJob.id, newJob._id),
   token |-> Or(newJob.token, newJob.token_number),
   printType |-> Or(newJob.printType, newJob.print_type),
   copies |-> IF newJob.copies # 0 THEN newJob.copies ELSE 1,
   status |-> Or(newJob.status, "pending")]

\* One element of formattedJobs of fetchJobs.
FormatFetched(job) ==
  [id |-> job._id, token |-> job.token_number, printType |-> job.print_type,
   copies |-> job.copies, status |-> job.status]

\* An updater without the comparison of identifiers.
SetStatusOfAll(jobs, id, st) ==
  [k \in 1 .. Len(jobs) |-> [jobs[k] EXCEPT !.status = st]]

\* prevJobs.map(job => job.id === update.id ? {...job, status} : job)
SetStatusById(jobs, id, st) ==
  [k \in 1 .. Len(jobs) |->
     IF jobs[k].id = id THEN [jobs[k] EXCEPT !.status = st] ELSE jobs[k]]

\* A batch update that stops at the first job of the token.
SetStatusOfFirstWithToken(jobs, tok, st) ==
  [k \in 1 .. Len(jobs) |->
     IF jobs[k].token = tok /\ \A i \in 1 .. (k - 1) : jobs[i].token # tok
       THEN [jobs[k] EXCEPT !.status = st] ELSE jobs[k]]

\* prevJobs.map(job => job.token === update.token ? {...job, status} : job)
SetStatusByToken(jobs, tok, st) ==
  [k \in 1 .. Len(jobs) |->
     IF jobs[k].token = tok THEN [jobs[k] EXCEPT !.status = st] ELSE jobs[k]]

\* An updater that inserts without looking for the identifier.
AddAlways(prevJobs, formattedJob) == << formattedJob >> \o prevJobs

\* The updater of newBatchPrintJob.
AddIfNew(prevJobs, formattedJob) ==
  IF \E k \in 1 .. Len(prevJobs) : prevJobs[k].id = formattedJob.id
    THEN prevJobs
    ELSE << formattedJob >> \o prevJobs

\* The toast of the dashboard's status handlers.
DashStatusToast(single, st) ==
  IF st = "completed"
    THEN IF single THEN "Job marked as completed"
                   ELSE "Jobs marked as completed"
  ELSE IF st = "deleted"
    THEN IF single THEN "Job deleted successfully"
                   ELSE "Jobs deleted successfully"
  ELSE "status updated"

\* ------------------------------------------- dashboard: batch download
\* A file name, and a Content-Disposition header, as its characters.
NoFile == << >>
Quote == "\""
FilenamePrefix == << "f", "i", "l", "e", "n", "a", "m", "e", "=", Quote >>

\* response.headers.get('Content-Disposition'): no header (null), a
\* disposition without filename, filename="a", filename=a, filename="",
\* and filename="a" before a second quoted parameter.
ContentDispositions ==
  { << >>,
    << "i", "n", "l", "i", "n", "e" >>,
    FilenamePrefix \o << "a", Quote >>,
    << "f", "i", "l", "e", "n", "a", "m", "e", "=", "a" >>,
    FilenamePrefix \o << Quote >>,
    FilenamePrefix \o << "a", Quote, ";", "x", "=", Quote, "b", Quote >> }

\* contentDisposition.match(/filename="(.+)"/): the leftmost filename="
\* that has at least one character and then a quote after it; (.+) is
\* greedy, so the capture runs up to the last quote of the header.
FilenameMatch(h) ==
  LET n == Len(FilenamePrefix)
      ends(i) == { q \in (i + n + 1) .. Len(h) : h[q] = Quote }
      starts == { i \in 1 .. (Len(h) - n + 1) :
                    /\ SubSeq(h, i, i + n - 1) = FilenamePrefix
                    /\ ends(i) # {} }
  IN  IF starts = {}
        THEN [found |-> FALSE, capture |-> NoFile]
        ELSE LET i == CHOOSE x \in starts : \A y \in starts : x <= y
                 q == CHOOSE x \in ends(i) : \A y \in ends(i) : y <= x
             IN  [found |-> TRUE, capture |-> SubSeq(h, i + n, q - 1)]

\* `filename` of handleDownloadFiles for a job of token tok.
DownloadFilename(h, tok) ==
  IF h # << >> /\ FilenameMatch(h).found
    THEN FilenameMatch(h).capture
    ELSE << "printjob-", tok >>

\* ---------------------------------------------- dashboard: the job list
\* The tabs of the list, and what the owner types in the search field.
Tabs == {"pending", "completed", "expired"}
SearchQueries == { << >>, << "t", "1" >>, << "2" >> }

\* The characters of a token.
Chars(tok) ==
  CASE tok = "T1" -> << "T", "1" >>
    [] tok = "T2" -> << "T", "2" >>
    [] OTHER -> << >>

\* String.prototype.toLowerCase, on the characters tokens are made of.
ToLowerCase(s) == [k \in 1 .. Len(s) |-> IF s[k] = "T" THEN "t" ELSE s[k]]

\* s.includes(q)
Includes(s, q) ==
  \E i \in 0 .. (Len(s) - Len(q)) : SubSeq(s, i + 1, i + Len(q)) = q

\* printJobs.filter(job => job.status === activeTab)
FilteredJobs == SelectSeq(printJobs, LAMBDA job : job.status = activeTab)

\* A search that compares the characters as they are.
FilteredAndSearchedJobsExact ==
  SelectSeq(FilteredJobs,
            LAMBDA job : Includes(Chars(job.token), searchQuery))

\* filteredJobs.filter(job =>
\*   job.token.toLowerCase().includes(searchQuery.toLowerCase()))
FilteredAndSearchedJobs ==
  SelectSeq(FilteredJobs,
            LAMBDA job : Includes(ToLowerCase(Chars(job.token)),
                                  ToLowerCase(searchQuery)))

\* ------------------------------------------------ dashboard: the page
DashInit ==
  /\ dashPhase \in {"init", "absent"}
  /\ printJobs = << >>
  /\ isAcceptingUploads = FALSE
  /\ isLoading = TRUE
  /\ jobsFetch = "none"
  /\ dashShopFetch = "none"
  /\ togglesInFlight = [b \in BOOLEAN |-> 0]
  /\ dashConnected = FALSE
  /\ dashOpenSockets = 0
  /\ dashSocketRef = "null"
  /\ jobRequests = << >>
  /\ savedAs = NoFile
  /\ activeTab = "pending"
  /\ searchQuery = << >>

\* The three mount effects of ShopDashboard.
DashMount ==
  /\ dashPhase = "init"
  /\ dashPhase' = "mounted"
  /\ dashConnected' = FALSE
  /\ dashOpenSockets' = dashOpenSockets + 1
  /\ dashSocketRef' = "socket"
  /\ sockLog' = << Io >>
  /\ dashShopFetch' = "inflight"
  /\ jobsFetch' = "inflight"
  /\ isLoading' = TRUE
  /\ toast' = "none"
  /\ savedAs' = NoFile
  /\ UNCHANGED << printJobs, isAcceptingUploads, togglesInFlight,
                  jobRequests, activeTab, searchQuery,
                  uploadVars, serverVars >>

\* The dashboard unmounts: the socket effect's cleanup, and the state is
\* discarded.  Requests that are pending stay pending.
DashUnmount ==
  /\ dashPhase = "mounted"
  /\ dashPhase' = "unmounted"
  /\ dashConnected' = FALSE
  /\ dashOpenSockets' = dashOpenSockets - 1
  /\ dashSocketRef' = "null"
  /\ sockLog' = << Disconnect >>
  /\ printJobs' = << >>
  /\ isAcceptingUploads' = FALSE
  /\ isLoading' = TRUE
  /\ activeTab' = "pending"
  /\ searchQuery' = << >>
  /\ toast' = "none"
  /\ savedAs' = NoFile
  /\ UNCHANGED << jobsFetch, dashShopFetch, togglesInFlight, jobRequests,
                  uploadVars, serverVars >>

\* The dashboard's fetchShopDetails after `await fetch`.
DashFetchShopOk(acc) ==
  /\ dashPhase = "mounted" /\ dashShopFetch = "inflight"
  /\ dashShopFetch' = "done"
  /\ isAcceptingUploads' = acc
  /\ toast' = "none"
  /\ savedAs' = NoFile
  /\ sockLog' = << >>
  /\ UNCHANGED << dashPhase, printJobs, isLoading, jobsFetch, togglesInFlight,
                  dashConnected, dashOpenSockets, dashSocketRef, jobRequests,
                  activeTab, searchQuery,
                  uploadVars, serverVars >>

DashFetchShopFail ==
  /\ dashPhase = "mounted" /\ dashShopFetch = "inflight"
  /\ dashShopFetch' = "done"
  /\ toast' = "Failed to fetch shop details"
  /\ savedAs' = NoFile
  /\ sockLog' = << >>
  /\ UNCHANGED << dashPhase, printJobs, isAcceptingUploads, isLoading,
                  jobsFetch, togglesInFlight, dashConnected, dashOpenSockets,
                  dashSocketRef, jobRequests, activeTab, searchQuery,
                  uploadVars, serverVars >>

\* fetchJobs after `await fetch`: response.ok, data its JSON.
FetchJobsOk(data) ==
  /\ dashPhase = "mounted" /\ jobsFetch = "inflight"
  /\ jobsFetch' = "done"
  /\ printJobs' = [k \in 1 .. Len(data) |-> FormatFetched(data[k])]
  /\ isLoading' = FALSE
  /\ toast' = "none"
  /\ savedAs' = NoFile
  /\ sockLog' = << >>
  /\ UNCHANGED << dashPhase, isAcceptingUploads, dashShopFetch,
                  togglesInFlight, dashConnected, dashOpenSockets,
                  dashSocketRef, jobRequests, activeTab, searchQuery,
                  uploadVars, serverVars >>

\* fetchJobs: catch, then finally.
FetchJobsFail ==
  /\ dashPhase = "mounted" /\ jobsFetch = "inflight"
  /\ jobsFetch' = "done"
  /\ isLoading' = FALSE
  /\ toast' = "Failed to fetch print jobs"
  /\ savedAs' = NoFile
  /\ sockLog' = << >>
  /\ UNCHANGED << dashPhase, printJobs, isAcceptingUploads, dashShopFetch,
                  togglesInFlight, dashConnected, dashOpenSockets,
                  dashSocketRef, jobRequests, activeTab, searchQuery,
                  uploadVars, serverVars >>

\* The dashboard's socket connected (the handler joins the shop's room), or
\* lost its connection.
DashConnect ==
  /\ dashOpenSockets > 0 /\ ~dashConnected
  /\ dashConnected' = TRUE
  /\ sockLog' = << JoinShopRoom(DashShopId) >>
  /\ toast' = "none"
  /\ savedAs' = NoFile
  /\ UNCHANGED << dashPhase, printJobs, isAcceptingUploads, isLoading,
                  jobsFetch, dashShopFetch, togglesInFlight, dashOpenSockets,
                  dashSocketRef, jobRequests, activeTab, searchQuery,
                  uploadVars, serverVars >>

DashDrop ==
  /\ dashOpenSockets > 0 /\ dashConnected
  /\ dashConnected' = FALSE
  /\ toast' = "none"
  /\ savedAs' = NoFile
  /\ sockLog' = << >>
  /\ UNCHANGED << dashPhase, printJobs, isAcceptingUploads, isLoading,
                  jobsFetch, dashShopFetch, togglesInFlight, dashOpenSockets,
                  dashSocketRef, jobRequests, activeTab, searchQuery,
                  uploadVars, serverVars >>

\* The transport failed to connect.  The dashboard registers no
\* 'connect_error' listener: nothing runs.
DashConnectError ==
  /\ dashOpenSockets > 0 /\ ~dashConnected
  /\ toast' = "none"
  /\ savedAs' = NoFile
  /\ sockLog' = << >>
  /\ UNCHANGED << dashPhase, printJobs, isAcceptingUploads, isLoading,
                  jobsFetch, dashShopFetch, togglesInFlight, dashConnected,
                  dashOpenSockets, dashSocketRef, jobRequests, activeTab,
                  searchQuery, uploadVars, serverVars >>

\* shopStatusUpdate reaches the dashboard's socket.  The dashboard
\* registers no listener for it: nothing runs.
DashShopStatusUpdate(acc) ==
  /\ dashConnected
  /\ toast' = "none"
  /\ savedAs' = NoFile
  /\ sockLog' = << >>
  /\ UNCHANGED << dashPhase, printJobs, isAcceptingUploads, isLoading,
                  jobsFetch, dashShopFetch, togglesInFlight, dashConnected,
                  dashOpenSockets, dashSocketRef, jobRequests, activeTab,
                  searchQuery, uploadVars, serverVars >>

\* socket.on('newBatchPrintJob')
NewBatchPrintJob(newJob) ==
  /\ dashConnected
  /\ printJobs' = AddIfNew(printJobs, FormatPushed(newJob))
  /\ toast' = "New print job received"
  /\ savedAs' = NoFile
  /\ sockLog' = << >>
  /\ UNCHANGED << dashPhase, isAcceptingUploads, isLoading, jobsFetch,
                  dashShopFetch, togglesInFlight, dashConnected,
                  dashOpenSockets, dashSocketRef, jobRequests, activeTab, searchQuery,
                  uploadVars, serverVars >>

\* socket.on('jobStatusUpdate') of the dashboard.
DashJobStatusUpdate(id, st) ==
  /\ dashConnected
  /\ printJobs' = SetStatusById(printJobs, id, st)
  /\ toast' = DashStatusToast(TRUE, st)
  /\ savedAs' = NoFile
  /\ sockLog' = << >>
  /\ UNCHANGED << dashPhase, isAcceptingUploads, isLoading, jobsFetch,
                  dashShopFetch, togglesInFlight, dashConnected,
                  dashOpenSockets, dashSocketRef, jobRequests, activeTab, searchQuery,
                  uploadVars, serverVars >>

\* socket.on('batchStatusUpdate') of the dashboard.
DashBatchStatusUpdate(tok, st) ==
  /\ dashConnected
  /\ printJobs' = SetStatusByToken(printJobs, tok, st)
  /\ toast' = DashStatusToast(FALSE, st)
  /\ savedAs' = NoFile
  /\ sockLog' = << >>
  /\ UNCHANGED << dashPhase, isAcceptingUploads, isLoading, jobsFetch,
                  dashShopFetch, togglesInFlight, dashConnected,
                  dashOpenSockets, dashSocketRef, jobRequests, activeTab, searchQuery,
                  uploadVars, serverVars >>

\* handleToggleUploads up to `await fetch`: the request body carries
\* !isAcceptingUploads of the render the click came from.
HandleToggleUploads ==
  /\ dashPhase = "mounted"
  /\ togglesInFlight[TRUE] + togglesInFlight[FALSE] < MaxToggles
  /\ togglesInFlight' =
       [togglesInFlight EXCEPT ![~isAcceptingUploads] = @ + 1]
  /\ toast' = "none"
  /\ savedAs' = NoFile
  /\ sockLog' = << >>
  /\ UNCHANGED << dashPhase, printJobs, isAcceptingUploads, isLoading,
                  jobsFetch, dashShopFetch, dashConnected, dashOpenSockets,
                  dashSocketRef, jobRequests, activeTab, searchQuery,
                  uploadVars, serverVars >>

\* The flag handleToggleUploads leaves after a successful response, for the
\* invocation whose request carried `sent`: setIsAcceptingUploads(
\* !isAcceptingUploads) with the value the invocation closed over.
FlagAfterToggle(sent) == sent

\* handleToggleUploads after `await fetch`: response.ok.
ToggleOk(sent) ==
  /\ dashPhase = "mounted" /\ togglesInFlight[sent] > 0
  /\ togglesInFlight' = [togglesInFlight EXCEPT ![sent] = @ - 1]
  /\ isAcceptingUploads' = FlagAfterToggle(sent)
  /\ toast' = "Upload form toggled"
  /\ savedAs' = NoFile
  /\ sockLog' = << >>
  /\ UNCHANGED << dashPhase, printJobs, isLoading, jobsFetch, dashShopFetch,
                  dashConnected, dashOpenSockets, dashSocketRef, jobRequests,
                  activeTab, searchQuery,
                  uploadVars, serverVars >>

\* handleToggleUploads: the catch block.
ToggleFail(sent) ==
  /\ dashPhase = "mounted" /\ togglesInFlight[sent] > 0
  /\ togglesInFlight' = [togglesInFlight EXCEPT ![sent] = @ - 1]
  /\ toast' = "Failed to update shop status"
  /\ savedAs' = NoFile
  /\ sockLog' = << >>
  /\ UNCHANGED << dashPhase, printJobs, isAcceptingUploads, isLoading,
                  jobsFetch, dashShopFetch, dashConnected, dashOpenSockets,
                  dashSocketRef, jobRequests, activeTab, searchQuery,
                  uploadVars, serverVars >>

\* ------------------------------------------ dashboard: the job buttons
\* The tab buttons: setActiveTab(tab).
SetActiveTab(tab) ==
  /\ dashPhase = "mounted"
  /\ activeTab' = tab
  /\ toast' = "none"
  /\ savedAs' = NoFile
  /\ sockLog' = << >>
  /\ UNCHANGED << dashPhase, printJobs, isAcceptingUploads, isLoading,
                  jobsFetch, dashShopFetch, togglesInFlight, dashConnected,
                  dashOpenSockets, dashSocketRef, jobRequests, searchQuery,
                  uploadVars, serverVars >>

\* The search field's onChange: setSearchQuery(e.target.value).
SetSearchQuery(q) ==
  /\ dashPhase = "mounted"
  /\ searchQuery' = q
  /\ toast' = "none"
  /\ savedAs' = NoFile
  /\ sockLog' = << >>
  /\ UNCHANGED << dashPhase, printJobs, isAcceptingUploads, isLoading,
                  jobsFetch, dashShopFetch, togglesInFlight, dashConnected,
                  dashOpenSockets, dashSocketRef, jobRequests, activeTab,
                  uploadVars, serverVars >>

\* Buttons on every pending job of the roster, listed or not.
ButtonsShownInRoster(jobId) ==
  /\ dashPhase = "mounted" /\ ~isLoading
  /\ \E k \in 1 .. Len(printJobs) :
       printJobs[k].id = jobId /\ printJobs[k].status = "pending"

\* The buttons of job jobId: rendered for the pending jobs of
\* filteredAndSearchedJobs, which is not rendered while isLoading.
ButtonsShown(jobId) ==
  /\ dashPhase = "mounted" /\ ~isLoading
  /\ LET listed == FilteredAndSearchedJobs
     IN  \E k \in 1 .. Len(listed) :
           listed[k].id = jobId /\ listed[k].status = "pending"

\* printJobs.find(job => job.id === jobId).token
TokenOf(jobId) ==
  LET k == CHOOSE x \in 1 .. Len(printJobs) :
             /\ printJobs[x].id = jobId
             /\ \A y \in 1 .. (x - 1) : printJobs[y].id # jobId
  IN  printJobs[k].token

\* A request in flight: its method and the last segment of its URL.
Request(method, arg) == [method |-> method, arg |-> arg]

\* jobRequests without its i-th element.
Settled(i) ==
  [k \in 1 .. (Len(jobRequests) - 1) |->
     IF k < i THEN jobRequests[k] ELSE jobRequests[k + 1]]

\* handleMarkAsCompleted(jobId) up to `await fetch`.
HandleMarkAsCompleted(jobId) ==
  /\ ButtonsShown(jobId)
  /\ Len(jobRequests) < MaxJobRequests
  /\ jobRequests' = Append(jobRequests, Request("PUT", jobId))
  /\ toast' = "none"
  /\ savedAs' = NoFile
  /\ sockLog' = << >>
  /\ UNCHANGED << dashPhase, printJobs, isAcceptingUploads, isLoading,
                  jobsFetch, dashShopFetch, togglesInFlight, dashConnected,
                  dashOpenSockets, dashSocketRef, activeTab, searchQuery,
                  uploadVars, serverVars >>

\* A success branch that applies the new status to the roster at once.
MarkAsCompletedOptimistic(i, ok) ==
  /\ i \in 1 .. Len(jobRequests) /\ jobRequests[i].method = "PUT"
  /\ jobRequests' = Settled(i)
  /\ printJobs' = IF ok /\ dashPhase = "mounted"
                    THEN SetStatusById(printJobs, jobRequests[i].arg,
                                       "completed")
                    ELSE printJobs
  /\ toast' = IF ok THEN "Job marked as completed"
                     ELSE "Failed to mark job as completed"
  /\ savedAs' = NoFile
  /\ sockLog' = << >>
  /\ UNCHANGED << dashPhase, isAcceptingUploads, isLoading, jobsFetch,
                  dashShopFetch, togglesInFlight, dashConnected,
                  dashOpenSockets, dashSocketRef, activeTab, searchQuery,
                  uploadVars, serverVars >>

\* handleMarkAsCompleted after `await fetch`: response.ok, or the catch
\* block.  It sets no state, so it does the same after an unmount.
MarkAsCompletedResponse(i, ok) ==
  /\ i \in 1 .. Len(jobRequests) /\ jobRequests[i].method = "PUT"
  /\ jobRequests' = Settled(i)
  /\ toast' = IF ok THEN "Job marked as completed"
                     ELSE "Failed to mark job as completed"
  /\ savedAs' = NoFile
  /\ sockLog' = << >>
  /\ UNCHANGED << dashPhase, printJobs, isAcceptingUploads, isLoading,
                  jobsFetch, dashShopFetch, togglesInFlight, dashConnected,
                  dashOpenSockets, dashSocketRef, activeTab, searchQuery,
                  uploadVars, serverVars >>

\* A handleDeleteJob that does not look at what confirm() returned.
HandleDeleteJobUnasked(jobId, accepted) ==
  /\ ButtonsShown(jobId)
  /\ Len(jobRequests) < MaxJobRequests
  /\ jobRequests' = Append(jobRequests, Request("DELETE", jobId))
  /\ toast' = "none"
  /\ savedAs' = NoFile
  /\ sockLog' = << >>
  /\ UNCHANGED << dashPhase, printJobs, isAcceptingUploads, isLoading,
                  jobsFetch, dashShopFetch, togglesInFlight, dashConnected,
                  dashOpenSockets, dashSocketRef, activeTab, searchQuery,
                  uploadVars, serverVars >>

\* handleDeleteJob(jobId) up to `await fetch`; `accepted` is what
\* confirm() returned.
HandleDeleteJob(jobId, accepted) ==
  /\ ButtonsShown(jobId)
  /\ IF accepted
       THEN /\ Len(jobRequests) < MaxJobRequests
            /\ jobRequests' = Append(jobRequests, Request("DELETE", jobId))
       ELSE UNCHANGED jobRequests
  /\ toast' = "none"
  /\ savedAs' = NoFile
  /\ sockLog' = << >>
  /\ UNCHANGED << dashPhase, printJobs, isAcceptingUploads, isLoading,
                  jobsFetch, dashShopFetch, togglesInFlight, dashConnected,
                  dashOpenSockets, dashSocketRef, activeTab, searchQuery,
                  uploadVars, serverVars >>

\* handleDeleteJob after `await fetch`: response.ok, or the catch block.
DeleteJobResponse(i, ok) ==
  /\ i \in 1 .. Len(jobRequests) /\ jobRequests[i].method = "DELETE"
  /\ jobRequests' = Settled(i)
  /\ toast' = IF ok THEN "Job deleted successfully"
                     ELSE "Failed to delete job"
  /\ savedAs' = NoFile
  /\ sockLog' = << >>
  /\ UNCHANGED << dashPhase, printJobs, isAcceptingUploads, isLoading,
                  jobsFetch, dashShopFetch, togglesInFlight, dashConnected,
                  dashOpenSockets, dashSocketRef, activeTab, searchQuery,
                  uploadVars, serverVars >>

\* handleDownloadFiles(jobId) up to `await fetch`: the request is for the
\* token of the job as the roster has it at the click.
HandleDownloadFiles(jobId) ==
  /\ ButtonsShown(jobId)
  /\ Len(jobRequests) < MaxJobRequests
  /\ jobRequests' = Append(jobRequests, Request("GET", TokenOf(jobId)))
  /\ toast' = "Preparing download"
  /\ savedAs' = NoFile
  /\ sockLog' = << >>
  /\ UNCHANGED << dashPhase, printJobs, isAcceptingUploads, isLoading,
                  jobsFetch, dashShopFetch, togglesInFlight, dashConnected,
                  dashOpenSockets, dashSocketRef, activeTab, searchQuery,
                  uploadVars, serverVars >>

\* handleDownloadFiles after `await fetch`: response.ok with the header
\* contentDisposition and a body that arrives, so the link is clicked; or
\* the catch block.
DownloadResponse(i, ok, contentDisposition) ==
  /\ i \in 1 .. Len(jobRequests) /\ jobRequests[i].method = "GET"
  /\ jobRequests' = Settled(i)
  /\ savedAs' = IF ok
                  THEN DownloadFilename(contentDisposition,
                                        jobRequests[i].arg)
                  ELSE NoFile
  /\ toast' = IF ok THEN "Download complete" ELSE "Download failed"
  /\ sockLog' = << >>
  /\ UNCHANGED << dashPhase, printJobs, isAcceptingUploads, isLoading,
                  jobsFetch, dashShopFetch, togglesInFlight, dashConnected,
                  dashOpenSockets, dashSocketRef, activeTab, searchQuery,
                  uploadVars, serverVars >>

\* ------------------------------ dashboard: continuations after unmount
\* fetchShopDetails: the catch block's toast.
LateDashFetchShop(ok) ==
  /\ dashPhase = "unmounted" /\ dashShopFetch = "inflight"
  /\ dashShopFetch' = "done"
  /\ toast' = IF ok THEN "none" ELSE "Failed to fetch shop details"
  /\ savedAs' = NoFile
  /\ sockLog' = << >>
  /\ UNCHANGED << dashPhase, printJobs, isAcceptingUploads, isLoading,
                  jobsFetch, togglesInFlight, dashConnected, dashOpenSockets,
                  dashSocketRef, jobRequests, activeTab, searchQuery,
                  uploadVars, serverVars >>

\* fetchJobs: the catch block's toast.
LateFetchJobs(ok) ==
  /\ dashPhase = "unmounted" /\ jobsFetch = "inflight"
  /\ jobsFetch' = "done"
  /\ toast' = IF ok THEN "none" ELSE "Failed to fetch print jobs"
  /\ savedAs' = NoFile
  /\ sockLog' = << >>
  /\ UNCHANGED << dashPhase, printJobs, isAcceptingUploads, isLoading,
                  dashShopFetch, togglesInFlight, dashConnected,
                  dashOpenSockets, dashSocketRef, jobRequests, activeTab, searchQuery,
                  uploadVars, serverVars >>

\* handleToggleUploads: the toasts.
LateToggle(sent, ok) ==
  /\ dashPhase = "unmounted" /\ togglesInFlight[sent] > 0
  /\ togglesInFlight' = [togglesInFlight EXCEPT ![sent] = @ - 1]
  /\ toast' = IF ok THEN "Upload form toggled"
                     ELSE "Failed to update shop status"
  /\ savedAs' = NoFile
  /\ sockLog' = << >>
  /\ UNCHANGED << dashPhase, printJobs, isAcceptingUploads, isLoading,
                  jobsFetch, dashShopFetch, dashConnected, dashOpenSockets,
                  dashSocketRef, jobRequests, activeTab, searchQuery,
                  uploadVars, serverVars >>

DashNext ==
  \/ DashMount
  \/ DashUnmount
  \/ \E acc \in BOOLEAN : DashFetchShopOk(acc)
  \/ DashFetchShopFail
  \/ \E data \in JobLists : FetchJobsOk(data)
  \/ FetchJobsFail
  \/ DashConnect
  \/ DashDrop
  \/ DashConnectError
  \/ \E acc \in BOOLEAN : DashShopStatusUpdate(acc)
  \/ \E newJob \in PushedJobs : NewBatchPrintJob(newJob)
  \/ \E id \in JobIds, st \in Statuses : DashJobStatusUpdate(id, st)
  \/ \E tok \in Tokens, st \in Statuses : DashBatchStatusUpdate(tok, st)
  \/ HandleToggleUploads
  \/ \E sent \in BOOLEAN : ToggleOk(sent)
  \/ \E sent \in BOOLEAN : ToggleFail(sent)
  \/ \E id \in JobIds : HandleMarkAsCompleted(id)
  \/ \E i \in 1 .. MaxJobRequests, ok \in BOOLEAN :
       MarkAsCompletedResponse(i, ok)
  \/ \E id \in JobIds : HandleDeleteJob(id, TRUE)
  \/ \E id \in JobIds : HandleDeleteJob(id, FALSE)
  \/ \E i \in 1 .. MaxJobRequests, ok \in BOOLEAN : DeleteJobResponse(i, ok)
  \/ \E id \in JobIds : HandleDownloadFiles(id)
  \/ \E i \in 1 .. MaxJobRequests, ok \in BOOLEAN,
          h \in ContentDispositions : DownloadResponse(i, ok, h)
  \/ \E ok \in BOOLEAN : LateDashFetchShop(ok)
  \/ \E ok \in BOOLEAN : LateFetchJobs(ok)
  \/ \E sent \in BOOLEAN, ok \in BOOLEAN : LateToggle(sent, ok)

\* The steps that read or write the roster, the tab and the search field.
ListNext ==
  \/ DashMount
  \/ \E data \in JobLists : FetchJobsOk(data)
  \/ FetchJobsFail
  \/ DashConnect
  \/ \E newJob \in PushedJobs : NewBatchPrintJob(newJob)
  \/ \E id \in JobIds, st \in Statuses : DashJobStatusUpdate(id, st)
  \/ \E tok \in Tokens, st \in Statuses : DashBatchStatusUpdate(tok, st)
  \/ \E tab \in Tabs : SetActiveTab(tab)
  \/ \E q \in SearchQueries : SetSearchQuery(q)
  \/ \E id \in JobIds : HandleMarkAsCompleted(id)
  \/ \E i \in 1 .. MaxJobRequests, ok \in BOOLEAN :
       MarkAsCompletedResponse(i, ok)
  \/ \E id \in JobIds : HandleDeleteJob(id, TRUE)
  \/ \E id \in JobIds : HandleDeleteJob(id, FALSE)
  \/ \E i \in 1 .. MaxJobRequests, ok \in BOOLEAN : DeleteJobResponse(i, ok)
  \/ \E id \in JobIds : HandleDownloadFiles(id)
  \/ \E i \in 1 .. MaxJobRequests, ok \in BOOLEAN,
          h \in ContentDispositions : DownloadResponse(i, ok, h)

\* A page load renders one of the two pages.
Init ==
  /\ UploadInit /\ DashInit
  /\ (phase = "absent") # (dashPhase = "absent")
  /\ serverStatus = NoValue
  /\ toast = "none" /\ sockLog = << >>

\* The upload page.
Spec == Init /\ [][UploadNext]_vars

\* The upload page from its load to the status events of its first
\* submission.  socket.io connects a socket it opened, and connects it again
\* after a failure, without being asked to.
LiveSpec == Init /\ [][LiveNext]_vars /\ WF_vars(SocketConnect)

\* The dashboard.
DashSpecInit == Init /\ dashPhase = "init"

DashSpec == DashSpecInit /\ [][DashNext]_vars

\* The dashboard's job list under its tab and search controls, which
\* DashSpec leaves at their initial values.
ListSpec == DashSpecInit /\ [][ListNext]_vars

\* Either page.
AppSpec == Init /\ [][UploadNext \/ DashNext]_vars

\* ------------------------------------------------------------- claims
\* The state handleSubmit's failure and start leave alone.
SubmissionState ==
  << files, printType, printSide, copies, token, uploadComplete, jobStatus,
     localStorage >>

\* handleSubmit ran with a non-empty selection.
SubmitWithFiles == HandleSubmit /\ Len(files) > 0

\* C1: every handleSubmit with a non-empty selection issues exactly one
\* upload request (and nothing else issues one); when the request returns
\* 2xx with token_number T, uploadToken_{shopId} holds T, token is T,
\* uploadComplete is true and jobStatus is pending.
C1_SubmitStoresToken ==
  [][ /\ SubmitWithFiles => uploadsInFlight' = uploadsInFlight + 1
      /\ uploadsInFlight' > uploadsInFlight => SubmitWithFiles
      /\ \A T \in Tokens :
           UploadOk(T) =>
             /\ uploadsInFlight' = uploadsInFlight - 1
             /\ localStorage' = T
             /\ token' = T
             /\ uploadComplete'
             /\ jobStatus' = "pending" ]_vars

C1_Witness ==
  /\ toast = "files uploaded successfully"
  /\ token = "T2" /\ localStorage = "T2"
  /\ uploadComplete /\ jobStatus = "pending"

\* C2: on the upload page a jobStatusUpdate or batchStatusUpdate whose
\* token is the displayed token sets jobStatus to the event's status; one
\* whose token differs changes no state of the page.
C2_PushMatchesToken ==
  [][ \A tok \in Tokens, st \in Statuses :
        (JobStatusUpdate(tok, st) \/ BatchStatusUpdate(tok, st)) =>
          IF tok = token
            THEN jobStatus' = st
            ELSE UNCHANGED uploadVars ]_vars

C2_Witness ==
  /\ token = "T2" /\ jobStatus = "deleted"
  /\ toast = "All jobs were declined/deleted"

\* C3: on the dashboard one batchStatusUpdate for token T with status s
\* gives every roster job of token T status s, leaves every other job and
\* every other field as it was, and keeps the roster's length and order.
C3_BatchUpdatesEveryJob ==
  [][ \A tok \in Tokens, st \in Statuses :
        DashBatchStatusUpdate(tok, st) =>
          /\ Len(printJobs') = Len(printJobs)
          /\ \A k \in 1 .. Len(printJobs) :
               printJobs'[k] =
                 IF printJobs[k].token = tok
                   THEN [printJobs[k] EXCEPT !.status = st]
                   ELSE printJobs[k] ]_vars

\* Two jobs of one token, both completed by the batch event just applied,
\* beside a job of another token that is not.
C3_Witness ==
  /\ toast = "Jobs marked as completed"
  /\ \E i, j, k \in 1 .. Len(printJobs) :
       /\ i # j
       /\ printJobs[i].token = printJobs[j].token
       /\ printJobs[i].status = "completed"
       /\ printJobs[j].status = "completed"
       /\ printJobs[k].token # printJobs[i].token
       /\ printJobs[k].status = "pending"

\* C4: every handleToggleUploads whose request succeeds negates the flag as
\* it stands when the response is handled, also when requests overlap; a
\* failed request leaves the flag alone and raises an error notification.
C4_ToggleFlipsOnSuccess ==
  [][ \A sent \in BOOLEAN :
        /\ ToggleOk(sent) => isAcceptingUploads' = ~isAcceptingUploads
        /\ ToggleFail(sent) =>
             /\ isAcceptingUploads' = isAcceptingUploads
             /\ toast' \in ErrorToasts ]_vars

\* C5: on mount with a token stored under uploadToken_{shopId} recovery
\* issues one status request for that token and no upload request, and
\* never a second one; when it succeeds, token is the stored token,
\* uploadComplete is true, and jobStatus, printType, printSide and copies
\* are the server's.
C5_RecoveryRestoresJob ==
  [][ /\ (Mount /\ localStorage # NoValue /\ shopId # NoValue) =>
           /\ recovery' = "inflight"
           /\ recoveryToken' = localStorage
           /\ uploadsInFlight' = 0
      /\ recovery' = "inflight" => (Mount \/ recovery = "inflight")
      /\ \A job \in StatusResponses :
           RecoveryOk(job) =>
             /\ token' = recoveryToken
             /\ uploadComplete'
             /\ jobStatus' = job.status
             /\ printType' = job.print_type
             /\ printSide' = job.print_side
             /\ copies' = job.copies
             /\ uploadsInFlight' = uploadsInFlight ]_vars

C5_Witness ==
  /\ recovery = "done" /\ token = StoredAtLoad /\ localStorage = StoredAtLoad
  /\ uploadComplete /\ jobStatus = "expired"
  /\ printType = "color" /\ printSide = "double" /\ copies = 2
  /\ uploadsInFlight = 0 /\ ~isUploading

C7_OneActiveToken ==
  [][ /\ token' # NoValue => token' = localStorage'
      /\ \A T \in Tokens :
           UploadOk(T) => (token' = T /\ localStorage' = T)
      /\ TransitionOut =>
           (token' = NoValue /\ localStorage' = NoValue) ]_vars

\* C8: when the upload request fails, handleSubmit raises an error
\* notification, leaves files, printType, printSide, copies, token,
\* uploadComplete, jobStatus and the stored token as they were (as its
\* start before the request did), sets isUploading to false, and issues no
\* further request.
C8_UploadFailureKeepsState ==
  [][ /\ UploadFail =>
           /\ toast' \in ErrorToasts
           /\ UNCHANGED SubmissionState
           /\ ~isUploading'
           /\ uploadsInFlight' = uploadsInFlight - 1
      /\ SubmitWithFiles => UNCHANGED SubmissionState ]_vars

C8_Witness ==
  /\ toast = "Upload failed"
  /\ files = << "a" >> /\ printType = "color" /\ copies = 2
  /\ ~isUploading /\ ~uploadComplete /\ uploadsInFlight = 0
  /\ token = NoValue /\ localStorage = NoValue

\* C9: when the recovery status request fails, uploadToken_{shopId} is
\* removed, no notification is raised, and token, uploadComplete, jobStatus
\* and the selection stay as they are: at their initial values when
\* nothing else has changed them, with the upload form offered.
C9_RecoveryFailureIsSilent ==
  [][ RecoveryFail =>
        /\ localStorage' = NoValue
        /\ toast' = "none"
        /\ UNCHANGED << token, uploadComplete, jobStatus, files, printType,
                        printSide, copies >>
        /\ (MainView /\ ~uploadComplete) => FormShown' ]_vars

C9_Witness ==
  /\ recovery = "done" /\ recoveryToken = StoredAtLoad
  /\ localStorage = NoValue /\ toast = "none"
  /\ token = NoValue /\ ~uploadComplete /\ jobStatus = "pending"
  /\ files = << >> /\ printType = "bw" /\ printSide = "single"
  /\ copies = MIN_COPIES
  /\ uploadsInFlight = 0 /\ timers = 0 /\ ~isUploading
  /\ FormShown

\* The roster holds a job of identifier id.
InRoster(id) == \E k \in 1 .. Len(printJobs) : printJobs[k].id = id

\* C10: a job that has entered the roster, through the jobs response or a
\* newBatchPrintJob event, is in the roster in every later state of the
\* page load.
C10_RosterNeverLosesJob ==
  [][ \A id \in JobIds : InRoster(id) => InRoster(id)' ]_vars

\* No two roster entries share an identifier.
DistinctIds ==
  \A i, j \in 1 .. Len(printJobs) :
    printJobs[i].id = printJobs[j].id => i = j

\* C11: a newBatchPrintJob whose identifier is not in the roster puts the
\* job at the head of the roster, before the jobs already there; one whose
\* identifier is in the roster leaves the roster as it is; and no two
\* roster entries ever share an identifier.
C11_NewJobInsertedOnce ==
  /\ []DistinctIds
  /\ [][ \A newJob \in PushedJobs :
           NewBatchPrintJob(newJob) =>
             IF InRoster(FormatPushed(newJob).id)
               THEN printJobs' = printJobs
               ELSE printJobs' = << FormatPushed(newJob) >> \o printJobs ]_vars

\* The pushed job j3 at the head of a roster that held two jobs.
C11_Witness ==
  /\ toast = "New print job received"
  /\ Len(printJobs) = 3
  /\ printJobs[1] = FormatPushed(PushedJob3)
  /\ printJobs[2].id = "j2" /\ printJobs[3].id = "j1"

\* A step of handleMarkAsCompleted or handleDeleteJob: its start, or its
\* continuation after the response.
JobHandlerStep ==
  \/ \E id \in JobIds : HandleMarkAsCompleted(id)
  \/ \E id \in JobIds, accepted \in BOOLEAN : HandleDeleteJob(id, accepted)
  \/ \E i \in 1 .. Len(jobRequests), ok \in BOOLEAN :
       MarkAsCompletedResponse(i, ok) \/ DeleteJobResponse(i, ok)

\* The step changes the status the rendered list shows for some job.
VisibleStatusChange ==
  /\ dashPhase = "mounted" /\ dashPhase' = "mounted"
  /\ ~isLoading /\ ~isLoading'
  /\ \E k \in 1 .. Len(printJobs), n \in 1 .. Len(printJobs') :
       /\ printJobs[k].id = printJobs'[n].id
       /\ printJobs[k].status # printJobs'[n].status

\* C12: handleMarkAsCompleted and handleDeleteJob leave printJobs as it is,
\* at their start and when their request has succeeded or failed; the
\* status the list shows for a job changes only in a step that applies a
\* jobStatusUpdate or batchStatusUpdate event.
C12_JobHandlersKeepRoster ==
  [][ /\ JobHandlerStep => printJobs' = printJobs
      /\ VisibleStatusChange =>
           \/ \E id \in JobIds, st \in Statuses : DashJobStatusUpdate(id, st)
           \/ \E tok \in Tokens, st \in Statuses :
                DashBatchStatusUpdate(tok, st) ]_vars

\* The mark-completed request has just succeeded (the socket is down, so
\* the toast is the handler's) and both jobs are still shown as pending.
C12_Witness ==
  /\ toast = "Job marked as completed" /\ ~dashConnected
  /\ dashPhase = "mounted" /\ ~isLoading /\ jobRequests = << >>
  /\ Len(printJobs) = 2
  /\ printJobs[1].status = "pending" /\ printJobs[2].status = "pending"

\* The DELETE requests in flight.
DeletesInFlight ==
  Cardinality({ i \in 1 .. Len(jobRequests) :
                  jobRequests[i].method = "DELETE" })

\* What a step of the dashboard can change besides its outputs.
DashState ==
  << dashPhase, printJobs, isAcceptingUploads, isLoading, jobsFetch,
     dashShopFetch, togglesInFlight, dashConnected, dashOpenSockets,
     dashSocketRef, jobRequests, activeTab, searchQuery >>

\* C13: a DELETE request is issued only by a handleDeleteJob whose
\* confirmation was accepted; a handleDeleteJob whose confirmation was
\* declined sends no request, raises no notification and changes no state.
C13_DeleteNeedsConfirmation ==
  [][ /\ DeletesInFlight' > DeletesInFlight =>
           \E id \in JobIds : HandleDeleteJob(id, TRUE)
      /\ \A id \in JobIds :
           HandleDeleteJob(id, FALSE) =>
             /\ UNCHANGED DashState
             /\ toast' = "none" ]_vars

C13_Witness ==
  /\ jobRequests = << Request("DELETE", "j1") >>
  /\ toast = "none" /\ InRoster("j1")

\* A socket is opened or closed by the step.
SocketOpenedOrClosed ==
  \E k \in 1 .. Len(sockLog') : sockLog'[k] \in {Io, Disconnect}

\* C14: each page opens one socket when it mounts, and between mount and
\* unmount no socket is closed and no further socket is opened: not by a
\* successful submission, a recovery or a reset of the upload page either.
C14_OneSubscriptionPerLoad ==
  [][ /\ Mount \/ DashMount => sockLog' = << Io >>
      /\ (phase = "mounted" /\ phase' = "mounted") => ~SocketOpenedOrClosed
      /\ (dashPhase = "mounted" /\ dashPhase' = "mounted") =>
           ~SocketOpenedOrClosed ]_vars

\* The file name the header carries as filename="X": the characters from
\* the first filename=" up to the next quote, when there are any.
QuotedFilename(h) ==
  LET n == Len(FilenamePrefix)
      starts == { i \in 1 .. (Len(h) - n + 1) :
                    SubSeq(h, i, i + n - 1) = FilenamePrefix }
      i == CHOOSE x \in starts : \A y \in starts : x <= y
      closes == { q \in (i + n) .. Len(h) : h[q] = Quote }
      q == CHOOSE x \in closes : \A y \in closes : x <= y
  IN  IF starts = {} THEN NoFile
      ELSE IF closes = {} THEN NoFile
      ELSE SubSeq(h, i + n, q - 1)

\* C15: a download whose response has no Content-Disposition header, or one
\* without a filename="..." part, is saved as printjob-{token} for the
\* job's token; one whose header carries filename="X" is saved as X.
C15_DownloadFilename ==
  [][ \A i \in 1 .. Len(jobRequests), h \in ContentDispositions :
        DownloadResponse(i, TRUE, h) =>
          savedAs' = IF QuotedFilename(h) # NoFile
                       THEN QuotedFilename(h)
                       ELSE << "printjob-", jobRequests[i].arg >> ]_vars

\* C16: jobStatus is the status of the source applied last for the tracked
\* token: a recovery response sets it to the response's status, a
\* successful submission to pending, a push event of the token to the
\* event's status, whatever it was before (so also from completed, deleted
\* or expired back to pending); no other step changes it.
C16_LastStatusWins ==
  [][ /\ recovery' # recovery =>
           \A job \in StatusResponses :
             RecoveryOk(job) => jobStatus' = job.status
      /\ \A T \in Tokens : UploadOk(T) => jobStatus' = "pending"
      /\ \A st \in Statuses :
           (JobStatusUpdate(token, st) \/ BatchStatusUpdate(token, st)) =>
             jobStatus' = st
      /\ jobStatus' # jobStatus =>
           \/ \E job \in StatusResponses : RecoveryOk(job)
           \/ \E T \in Tokens : UploadOk(T)
           \/ \E tok \in Tokens, st \in Statuses :
                JobStatusUpdate(tok, st) \/ BatchStatusUpdate(tok, st)
           \/ Unmount ]_vars

\* The reset was pressed on a completed or deleted job, and before its
\* timer ran a push event of the token set the job back to pending.
C16_Witness ==
  /\ timers = 1 /\ ~uploadComplete /\ uploadsInFlight = 0
  /\ token = "T2" /\ jobStatus = "pending" /\ toast = "none"
  /\ sockConnected

\* C17: while an upload request is in flight isUploading is true and the
\* submit button is disabled, and no second upload request is started
\* before the first has settled.
C17_OneUploadAtATime ==
  /\ [](uploadsInFlight > 0 /\ phase = "mounted" =>
          isUploading /\ SubmitDisabled)
  /\ [](uploadsInFlight <= 1)

\* A join message is emitted by the step.
JoinEmitted ==
  \E k \in 1 .. Len(sockLog') : sockLog'[k].op = "joinShopRoom"

\* C18: every connect and reconnect of a page's socket emits exactly one
\* joinShopRoom with the shop identifier (on the upload page only when
\* shopId is present), and no other step emits one: the join messages of a
\* page load are as many as its connect events.
C18_JoinOnEveryConnect ==
  [][ /\ SocketConnect =>
           sockLog' = IF shopId # NoValue
                        THEN << JoinShopRoom(shopId) >> ELSE << >>
      /\ DashConnect => sockLog' = << JoinShopRoom(DashShopId) >>
      /\ JoinEmitted => (SocketConnect \/ DashConnect) ]_vars

\* The socket opened after a submission has connected and joined.
C18_Witness ==
  /\ sockLog = << JoinShopRoom("s1") >>
  /\ phase = "mounted" /\ sockConnected /\ token = "T2" /\ sockToken = "T2"

\* A push event is handled by the upload page, or by the dashboard.
UploadPushEvent ==
  \/ \E acc \in BOOLEAN : ShopStatusUpdate(acc)
  \/ \E tok \in Tokens, st \in Statuses :
       JobStatusUpdate(tok, st) \/ BatchStatusUpdate(tok, st)

DashPushEvent ==
  \/ \E newJob \in PushedJobs : NewBatchPrintJob(newJob)
  \/ \E id \in JobIds, st \in Statuses : DashJobStatusUpdate(id, st)
  \/ \E tok \in Tokens, st \in Statuses : DashBatchStatusUpdate(tok, st)

\* C19: the unmount disconnects the page's socket and sets socketRef to
\* null; after it no push event is handled; and a page never has more than
\* one socket that it opened and did not disconnect.
C19_UnmountReleasesSocket ==
  /\ [](openSockets <= 1 /\ dashOpenSockets <= 1)
  /\ [][ /\ Unmount =>
              /\ sockLog' = << Disconnect >>
              /\ socketRef' = "null" /\ openSockets' = 0
              /\ ~sockConnected'
         /\ DashUnmount =>
              /\ sockLog' = << Disconnect >>
              /\ dashSocketRef' = "null" /\ dashOpenSockets' = 0
              /\ ~dashConnected'
         /\ phase = "unmounted" => ~UploadPushEvent
         /\ dashPhase = "unmounted" => ~DashPushEvent ]_vars

\* The upload page has unmounted after a submission (whose token replaced
\* the socket) and with an event-receiving socket.
C19_Witness ==
  /\ phase = "unmounted" /\ sockLog = << Disconnect >>
  /\ socketRef = "null" /\ openSockets = 0 /\ ~sockConnected
  /\ localStorage = "T2"

\* handleSubmit ran with an empty selection.
SubmitWithoutFiles == HandleSubmit /\ Len(files) = 0

\* C20: a handleSubmit with an empty selection raises a notification,
\* issues no upload request, and leaves isUploading, token, uploadComplete,
\* jobStatus and the stored token as they are.
C20_EmptySubmitRejected ==
  [][ SubmitWithoutFiles =>
        /\ toast' = "Please select at least one file to upload"
        /\ uploadsInFlight' = uploadsInFlight
        /\ UNCHANGED << isUploading, token, uploadComplete, jobStatus,
                        localStorage >> ]_vars

C20_Witness ==
  /\ toast = "Please select at least one file to upload"
  /\ files = << >> /\ uploadsInFlight = 0 /\ ~isUploading
  /\ FormShown

\* C21: a shopStatusUpdate event carrying isAcceptingUploads = b leaves the
\* flag of the mounted page it is delivered to equal to b: isShopClosed is
\* not b on the upload page, isAcceptingUploads is b on the dashboard.
C21_PushedFlagCached ==
  [][ \A b \in BOOLEAN :
        /\ ShopStatusUpdate(b) /\ phase = "mounted" => isShopClosed' = ~b
        /\ DashShopStatusUpdate(b) /\ dashPhase = "mounted" =>
             isAcceptingUploads' = b ]_vars

\* C22: a jobStatusUpdate event for identifier id with status st keeps the
\* roster's length and order, sets the status of the job whose id is id to
\* st and changes nothing else; without such a job the roster is unchanged.
C22_JobStatusUpdateFrame ==
  [][ \A id \in JobIds, st \in Statuses :
        DashJobStatusUpdate(id, st) =>
          /\ Len(printJobs') = Len(printJobs)
          /\ \A k \in 1 .. Len(printJobs) :
               /\ printJobs[k].id = id =>
                    printJobs'[k] = [printJobs[k] EXCEPT !.status = st]
               /\ printJobs[k].id # id => printJobs'[k] = printJobs[k]
          /\ (\A k \in 1 .. Len(printJobs) : printJobs[k].id # id) =>
               printJobs' = printJobs ]_vars

\* An update has set j2 to expired; j1, of the same token, and j3 are as
\* they were fetched.
C22_Witness ==
  /\ toast = "status updated" /\ Len(printJobs) = 3
  /\ printJobs[1].id = "j3" /\ printJobs[1].status = "completed"
  /\ printJobs[2].id = "j2" /\ printJobs[2].status = "expired"
  /\ printJobs[3].id = "j1" /\ printJobs[3].status = "pending"

\* C23: a connection failure of a page's socket raises a notification on
\* that page.
C23_ConnectionFailureNotified ==
  [][ SocketConnectError \/ DashConnectError =>
        toast' = "WebSocket connection error" ]_vars

\* Upper and lower case of one letter, or the same character.
SameLetter(a, b) == a = b \/ {a, b} = {"T", "t"}

\* Token tok contains q, case ignored.
TokenContains(tok, q) ==
  \E off \in 0 .. (Len(Chars(tok)) - Len(q)) :
    \A j \in 1 .. Len(q) : SameLetter(Chars(tok)[off + j], q[j])

\* The positions of the roster whose job is under the active tab and
\* matches the search.
Listed ==
  { k \in 1 .. Len(printJobs) :
      /\ printJobs[k].status = activeTab
      /\ TokenContains(printJobs[k].token, searchQuery) }

\* C24: the list the dashboard shows is the roster jobs whose status is the
\* active tab and whose token contains the search text, case ignored, in
\* roster order; no deleted job is in it, and an empty search text leaves
\* the jobs of the tab.
C24_VisibleListIsFilteredRoster ==
  dashPhase = "mounted" /\ ~isLoading =>
    /\ Len(FilteredAndSearchedJobs) = Cardinality(Listed)
    /\ \A k \in Listed :
         FilteredAndSearchedJobs[Cardinality({ i \in Listed : i <= k })]
           = printJobs[k]
    /\ \A i \in 1 .. Len(FilteredAndSearchedJobs) :
         FilteredAndSearchedJobs[i].status # "deleted"
    /\ searchQuery = << >> => FilteredAndSearchedJobs = FilteredJobs

\* Under the completed tab with "t1" typed: of the two completed jobs the
\* one of token T1 is listed, and the pending job of T1 is not.
C24_Witness ==
  /\ dashPhase = "mounted" /\ ~isLoading
  /\ activeTab = "completed" /\ searchQuery = << "t", "1" >>
  /\ Len(printJobs) = 3 /\ Len(FilteredJobs) = 2
  /\ Len(FilteredAndSearchedJobs) = 1
  /\ \E k \in 1 .. 3 :
       printJobs[k].token = "T1" /\ printJobs[k].status = "pending"

\* C25: the delayed callback of a reset pressed before an upload succeeded
\* leaves the token of that upload displayed and stored: a transitionOut
\* that runs right after the success changes neither token nor the stored
\* value.
C25_StaleResetKeepsToken ==
  [][ /\ phase = "mounted" /\ toast = "files uploaded successfully"
      /\ TransitionOut
      => token' = token /\ localStorage' = localStorage ]_vars

\* The state a submission leaves and a recovery response sets.
Submission == << token, jobStatus, files, printType, printSide, copies >>

\* C26: a recovery response that arrives while the card of a submission of
\* this page load is shown leaves token, jobStatus, files, printType,
\* printSide and copies as the submission left them.
C26_LateRecoveryKeepsSubmission ==
  [][ \A job \in StatusResponses :
        uploadComplete /\ RecoveryOk(job) => UNCHANGED Submission ]_vars

\* C27: a status the server has sent for the page's token after the upload
\* response is eventually the page's jobStatus, unless the server sends
\* another one first.
C27_PushedStatusReflected ==
  \A st \in Statuses :
    [](serverStatus = st => <>(jobStatus = st \/ serverStatus # st))

\* What the reset leaves: the useState values of the selection and the
\* options, no token, nothing stored, the form.
ResetDone ==
  /\ files = << >> /\ printType = "bw" /\ printSide = "single"
  /\ copies = MIN_COPIES /\ token = NoValue /\ localStorage = NoValue
  /\ ~uploadComplete

\* C28: a press of "Upload Another File" hides the card and schedules the
\* reset exactly when jobStatus is completed or deleted, and the scheduled
\* callback leaves the page reset; a press with jobStatus pending or
\* expired changes no state and leaves the stored token.
C28_ResetOnlyWhenFinished ==
  [][ /\ ResetClick /\ jobStatus \in {"completed", "deleted"} =>
           ~uploadComplete' /\ timers' = timers + 1
      /\ ResetClick /\ jobStatus \in {"pending", "expired"} =>
           UNCHANGED uploadVars
      /\ timers' > timers =>
           ResetClick /\ jobStatus \in {"completed", "deleted"}
      /\ TransitionOut => ResetDone' ]_vars

\* The press on the card of an expired job has just been refused: the card
\* is still shown and the token still stored.
C28_Witness ==
  /\ toast = "job is still pending" /\ jobStatus = "expired"
  /\ CardShown /\ token # NoValue /\ localStorage = token /\ timers = 0

\* C29: an upload request starts only with shopId present, the shop flag
\* open, uploadComplete false and a file selected; the flag opens only by a
\* shop response or a shopStatusUpdate event.
C29_UploadStartsFromOpenForm ==
  [][ /\ uploadsInFlight' > uploadsInFlight =>
           /\ shopId # NoValue /\ ~isShopClosed
           /\ ~uploadComplete /\ Len(files) > 0
      /\ isShopClosed /\ ~isShopClosed' =>
           \/ \E acc \in BOOLEAN : FetchShopOk(acc)
           \/ \E acc \in BOOLEAN : ShopStatusUpdate(acc) ]_vars

\* An upload has just started on a page whose shop fetch failed and whose
\* flag a shopStatusUpdate opened.
C29_Witness ==
  /\ phase = "mounted" /\ uploadsInFlight = 1 /\ isUploading
  /\ ~isShopClosed /\ ~uploadComplete /\ Len(files) > 0
  /\ shopFetch = "inflight" /\ toast = "none"

\* The job a request of the job buttons names: by id, or by token for the
\* download.
Names(request, job) ==
  IF request.method = "GET" THEN request.arg = job.token
                            ELSE request.arg = job.id

\* C30: a mark-completed, delete or download request starts only for a job
\* that the roster has as pending at the click and that is under the
\* active tab and matches the search text.
C30_ActionsOnListedPendingJobs ==
  [][ Len(jobRequests') > Len(jobRequests) =>
        \E k \in Listed :
          /\ printJobs[k].status = "pending"
          /\ Names(jobRequests'[Len(jobRequests')], printJobs[k]) ]_vars

\* A delete request is in flight for j1, started under the search "t1"
\* while j3, completed, was in the roster.
C30_Witness ==
  /\ Len(jobRequests) = 1 /\ jobRequests[1] = Request("DELETE", "j1")
  /\ activeTab = "pending" /\ searchQuery = << "t", "1" >>
  /\ Len(printJobs) = 3 /\ printJobs[1].status = "completed"
  /\ toast = "none"
====
